---------------------------- MODULE Spec2Model ----------------------------
(***************************************************************************)
(* Model of the rocket telemetry inventory: Inventory.UpdateRocketState    *)
(* with its per-channel mutexes, the registry-wide mutex, the in-memory    *)
(* reorder buffers and the message handlers that write the rockets table.  *)
(***************************************************************************)
EXTENDS Integers, Sequences, FiniteSets, TLC

\* ------------------------------------------------------------------ bounds
\* Number of goroutines that call UpdateRocketState concurrently.
NumProcs == 2
\* Total number of UpdateRocketState calls in one behaviour.
MaxCalls == 3
\* Largest messageNumber the transport delivers.
MaxSeq == 3
\* Number of UpdateRocketState calls in a behaviour that delivers all five
\* message types.
MaxKindCalls == 2

Procs == 1..NumProcs
Channels == {"A", "B"}

\* ------------------------------------------------------------------ data
\* A row of the rockets table; present = FALSE stands for "no row".
NoRow ==
  [present |-> FALSE, type |-> "", speed |-> 0, mission |-> "",
   status |-> "", last_message_number |-> 0]

\* The row the unit tests insert before the first message:
\* INSERT INTO rockets (channel, speed, last_message_number) VALUES (?, s, 0).
SeedSpeed == 1000
SeedRow ==
  [present |-> TRUE, type |-> "", speed |-> SeedSpeed, mission |-> "",
   status |-> "", last_message_number |-> 0]

\* RocketMessage: Metadata (channel, messageNumber, messageType) and the raw
\* JSON payload.  wellFormed = FALSE is a payload json.Unmarshal rejects; a
\* field the JSON does not carry decodes to its zero value.
Msg(ch, n, t, wf, rt, ls, mi, by, nm) ==
  [channel |-> ch, num |-> n, type |-> t, wellFormed |-> wf, rtype |-> rt,
   launchSpeed |-> ls, mission |-> mi, by |-> by, newMission |-> nm]

NoMsg == Msg("", 0, "", FALSE, "", 0, "", 0, "")

Launched(ch, n, ls) ==
  Msg(ch, n, "RocketLaunched", TRUE, "Falcon-9", ls, "ARTEMIS", 0, "")
SpeedIncreased(ch, n, d) ==
  Msg(ch, n, "RocketSpeedIncreased", TRUE, "", 0, "", d, "")
SpeedDecreased(ch, n, d) ==
  Msg(ch, n, "RocketSpeedDecreased", TRUE, "", 0, "", d, "")
Exploded(ch, n) ==
  Msg(ch, n, "RocketExploded", TRUE, "", 0, "", 0, "")
MissionChanged(ch, n, nm) ==
  Msg(ch, n, "RocketMissionChanged", TRUE, "", 0, "", 0, nm)
Bogus(ch, n) ==
  Msg(ch, n, "InvalidType", TRUE, "", 0, "", 0, "")
Malformed(ch, n) ==
  Msg(ch, n, "RocketSpeedIncreased", FALSE, "", 0, "", 0, "")

\* ------------------------------------------------------------- handlers
MessageHandlers ==
  {"RocketLaunched", "RocketSpeedIncreased", "RocketSpeedDecreased",
   "RocketExploded", "RocketMissionChanged"}

\* INSERT ... ON CONFLICT(channel) DO UPDATE: the row exists afterwards.
RocketLaunchedProcess(row, m) ==
  [present |-> TRUE, type |-> m.rtype, speed |-> m.launchSpeed,
   mission |-> m.mission, status |-> "launched",
   last_message_number |-> m.num]

\* UPDATE ... WHERE channel = ?: touches no row when the channel has none.
RocketSpeedIncreasedProcess(row, m) ==
  IF row.present
    THEN [row EXCEPT !.speed = row.speed + m.by, !.last_message_number = m.num]
    ELSE row

\* A decrease without the CASE: speed = speed - ?.
RocketSpeedDecreasedUnclamped(row, m) ==
  IF row.present
    THEN [row EXCEPT !.speed = row.speed - m.by, !.last_message_number = m.num]
    ELSE row

\* UPDATE ... SET speed = CASE WHEN speed - ? < 0 THEN 0 ELSE speed - ? END.
RocketSpeedDecreasedProcess(row, m) ==
  IF row.present
    THEN [row EXCEPT
            !.speed = IF row.speed - m.by < 0 THEN 0 ELSE row.speed - m.by,
            !.last_message_number = m.num]
    ELSE row

RocketExplodedProcess(row, m) ==
  IF row.present
    THEN [row EXCEPT !.status = "exploded", !.last_message_number = m.num]
    ELSE row

RocketMissionChangedProcess(row, m) ==
  IF row.present
    THEN [row EXCEPT !.mission = m.newMission, !.last_message_number = m.num]
    ELSE row

\* processMessage without the "invalid message type" return: a type with no
\* handler is passed over.
processMessageAnyType(row, m) ==
  IF ~m.wellFormed THEN [err |-> TRUE, row |-> row]
  ELSE [err |-> FALSE,
        row |-> IF m.type = "RocketLaunched" THEN RocketLaunchedProcess(row, m)
                ELSE IF m.type = "RocketSpeedIncreased"
                  THEN RocketSpeedIncreasedProcess(row, m)
                ELSE row]

\* Inventory.processMessage: handler lookup, payload decoding, the handler's
\* statement.  err = TRUE is a returned error; the row is then untouched.
processMessage(row, m) ==
  IF m.type \notin MessageHandlers THEN [err |-> TRUE, row |-> row]
  ELSE IF ~m.wellFormed THEN [err |-> TRUE, row |-> row]
  ELSE [err |-> FALSE,
        row |-> CASE m.type = "RocketLaunched" -> RocketLaunchedProcess(row, m)
                  [] m.type = "RocketSpeedIncreased" -> RocketSpeedIncreasedProcess(row, m)
                  [] m.type = "RocketSpeedDecreased" -> RocketSpeedDecreasedProcess(row, m)
                  [] m.type = "RocketExploded" -> RocketExplodedProcess(row, m)
                  [] m.type = "RocketMissionChanged" -> RocketMissionChangedProcess(row, m)]

\* A watermark UPDATE that writes the number before the message's.
SetLastMessageNumberBehind(row, n) ==
  IF row.present THEN [row EXCEPT !.last_message_number = n - 1] ELSE row

\* UPDATE rockets SET last_message_number = ? WHERE channel = ?
SetLastMessageNumber(row, n) ==
  IF row.present THEN [row EXCEPT !.last_message_number = n] ELSE row

\* The watermark read that never sees the stored number.
ReadNothing(row) == 0

\* SELECT last_message_number ... Scan: sql.ErrNoRows leaves the variable 0.
ReadLastMessageNumber(row) ==
  IF row.present THEN row.last_message_number ELSE 0

\* ------------------------------------------------------- reorder buffer
RECURSIVE SortByNumber(_)
SortByNumber(s) ==
  IF Len(s) <= 1 THEN s
  ELSE LET i == CHOOSE i \in 1..Len(s) :
                  \A j \in 1..Len(s) : s[i].num <= s[j].num
       IN <<s[i]>> \o SortByNumber(SubSeq(s, 1, i - 1) \o SubSeq(s, i + 1, Len(s)))

AlreadyBuffered(buf, m) == \E i \in 1..Len(buf) : buf[i].num = m.num

\* A buffer insert that does not look for an entry with the same number.
BufferInsertNoDedup(buf, m) == SortByNumber(Append(buf, m))

\* The buffer after the out-of-order branch: append and sort unless an entry
\* with the same messageNumber is there.
BufferInsert(buf, m) ==
  IF AlreadyBuffered(buf, m) THEN buf ELSE SortByNumber(Append(buf, m))

\* A lookup that returns the first entry of the slice whatever its number.
getFirstMessage(buf, n) == IF buf = <<>> THEN NoMsg ELSE buf[1]

\* Inventory.getNextMessage: the first entry with that number, or nil.
getNextMessage(buf, n) ==
  IF \E i \in 1..Len(buf) : buf[i].num = n
    THEN buf[CHOOSE i \in 1..Len(buf) :
               buf[i].num = n /\ \A j \in 1..(i - 1) : buf[j].num # n]
    ELSE NoMsg

\* removeMessage that leaves the slice as it is.
removeNothing(buf, n) == buf

\* Inventory.removeMessage: every entry with that number is dropped.
removeMessage(buf, n) == SelectSeq(buf, LAMBDA x : x.num # n)


\* ------------------------------------------------------------------ state
VARIABLES
  rows,               \* the rockets table: channel -> row
  locks,              \* Inventory.locks: channel -> mutex (0: no entry)
  lockGen,            \* mutexes allocated so far for a channel (their identity)
  held,               \* the mutexes that are locked
  global,             \* Inventory.global: 0 free, else the goroutine holding it
  messageBuffers,     \* Inventory.messageBuffers: channel -> slice of messages
  pc,                 \* each goroutine's position in UpdateRocketState
  msg,                \* its argument
  lock,               \* its local: the mutex getLock returned
  tx,                 \* the channel's row as its open transaction sees it
  lastMessageNumber,  \* its local cursor
  nextMsg,            \* its local: the entry taken from the buffer
  err,                \* the error it is about to return
  pool,               \* the messages the transport may deliver
  left,               \* deliveries the transport still makes
  faulty,             \* whether the database returns errors in this behaviour
  rows0,              \* history: the table before the first call
  applied,            \* history: per channel, the committed transitions in order
  txLog,              \* history: transitions that changed the row in the open transaction
  invoked,            \* history: processMessage invocations of the call
  failedAt,           \* history: the message whose transition failed in the call
  pre,                \* history: row and buffer when the call took the channel mutex
  heldAtLock,         \* history: the mutexes that were locked at that moment
  overlap,            \* history: another call was in progress during the call
  outcome             \* history: the calls that returned

progVars == <<rows, locks, lockGen, held, global, messageBuffers>>
localVars == <<pc, msg, lock, tx, lastMessageNumber, nextMsg, err>>
envVars == <<pool, left, faulty, rows0>>
histVars ==
  <<applied, txLog, invoked, failedAt, pre, heldAtLock, overlap, outcome>>
vars == <<progVars, localVars, envVars, histVars>>

NoLock == <<"", 0>>
NoSnap == [row |-> NoRow, buf |-> <<>>]

\* NewInventory: empty maps, free mutexes; no call has started.
InitWith(table, messages, n) ==
  /\ rows = table
  /\ locks = [c \in Channels |-> 0]
  /\ lockGen = [c \in Channels |-> 0]
  /\ held = {}
  /\ global = 0
  /\ messageBuffers = [c \in Channels |-> <<>>]
  /\ pc = [p \in Procs |-> "idle"]
  /\ msg = [p \in Procs |-> NoMsg]
  /\ lock = [p \in Procs |-> NoLock]
  /\ tx = [p \in Procs |-> NoRow]
  /\ lastMessageNumber = [p \in Procs |-> 0]
  /\ nextMsg = [p \in Procs |-> NoMsg]
  /\ err = [p \in Procs |-> FALSE]
  /\ pool = messages
  /\ left = n
  /\ rows0 = table
  /\ applied = [c \in Channels |-> <<>>]
  /\ txLog = [p \in Procs |-> <<>>]
  /\ invoked = [p \in Procs |-> 0]
  /\ failedAt = [p \in Procs |-> NoMsg]
  /\ pre = [p \in Procs |-> NoSnap]
  /\ heldAtLock = [p \in Procs |-> {}]
  /\ overlap = [p \in Procs |-> FALSE]
  /\ outcome = {}

\* ---------------------------------------------------------------- actions
\* The HTTP handler calls UpdateRocketState(msg) on a goroutine of its own.
Call(p) ==
  /\ pc[p] = "idle"
  /\ left > 0
  /\ \E m \in pool :
       /\ msg' = [msg EXCEPT ![p] = m]
       /\ pc' = [pc EXCEPT ![p] = "getLock"]
  /\ left' = left - 1
  /\ overlap' = [q \in Procs |->
                   IF q = p THEN \E r \in Procs \ {p} : pc[r] # "idle"
                   ELSE overlap[q] \/ pc[q] # "idle"]
  /\ UNCHANGED <<progVars, lock, tx, lastMessageNumber, nextMsg, err,
                 pool, faulty, rows0, applied, txLog, invoked, failedAt, pre,
                 heldAtLock, outcome>>

\* getLock and the buffer sections entered without waiting for i.global.
GlobalNotTaken(p) == TRUE
GlobalFree(p) == global = 0

\* getLock: i.global.Lock()
GetLockEnter(p) ==
  /\ pc[p] = "getLock"
  /\ GlobalFree(p)
  /\ global' = p
  /\ pc' = [pc EXCEPT ![p] = "lookup"]
  /\ UNCHANGED <<rows, locks, lockGen, held, messageBuffers, msg, lock, tx,
                 lastMessageNumber, nextMsg, err, envVars, histVars>>

\* getLock that returns the mutex it found with i.global still locked.
GetLockLookupKeepsGlobal(p) ==
  /\ pc[p] = "lookup"
  /\ IF locks[msg[p].channel] # 0
       THEN /\ lock' = [lock EXCEPT ![p] = <<msg[p].channel, locks[msg[p].channel]>>]
            /\ global' = global
            /\ pc' = [pc EXCEPT ![p] = "lockKey"]
       ELSE /\ pc' = [pc EXCEPT ![p] = "create"]
            /\ UNCHANGED <<lock, global>>
  /\ UNCHANGED <<rows, locks, lockGen, held, messageBuffers, msg, tx,
                 lastMessageNumber, nextMsg, err, envVars, histVars>>

\* getLock without the lookup: a mutex is allocated on every call.
GetLockNoLookup(p) ==
  /\ pc[p] = "lookup"
  /\ pc' = [pc EXCEPT ![p] = "create"]
  /\ UNCHANGED <<rows, locks, lockGen, held, global, messageBuffers, msg, lock,
                 tx, lastMessageNumber, nextMsg, err, envVars, histVars>>

\* getLock: the map lookup; an existing mutex is returned (deferred Unlock).
GetLockLookup(p) ==
  /\ pc[p] = "lookup"
  /\ IF locks[msg[p].channel] # 0
       THEN /\ lock' = [lock EXCEPT ![p] = <<msg[p].channel, locks[msg[p].channel]>>]
            /\ global' = IF global = p THEN 0 ELSE global
            /\ pc' = [pc EXCEPT ![p] = "lockKey"]
       ELSE /\ pc' = [pc EXCEPT ![p] = "create"]
            /\ UNCHANGED <<lock, global>>
  /\ UNCHANGED <<rows, locks, lockGen, held, messageBuffers, msg, tx,
                 lastMessageNumber, nextMsg, err, envVars, histVars>>

\* getLock that returns the new mutex with i.global still locked.
GetLockCreateKeepsGlobal(p) ==
  /\ pc[p] = "create"
  /\ LET c == msg[p].channel
         g == lockGen[c] + 1
     IN /\ lockGen' = [lockGen EXCEPT ![c] = g]
        /\ locks' = [locks EXCEPT ![c] = g]
        /\ lock' = [lock EXCEPT ![p] = <<c, g>>]
  /\ pc' = [pc EXCEPT ![p] = "lockKey"]
  /\ UNCHANGED <<rows, held, global, messageBuffers, msg, tx,
                 lastMessageNumber, nextMsg, err, envVars, histVars>>

\* getLock: a new mutex is allocated, stored and returned (deferred Unlock).
GetLockCreate(p) ==
  /\ pc[p] = "create"
  /\ LET c == msg[p].channel
         g == lockGen[c] + 1
     IN /\ lockGen' = [lockGen EXCEPT ![c] = g]
        /\ locks' = [locks EXCEPT ![c] = g]
        /\ lock' = [lock EXCEPT ![p] = <<c, g>>]
  /\ global' = IF global = p THEN 0 ELSE global
  /\ pc' = [pc EXCEPT ![p] = "lockKey"]
  /\ UNCHANGED <<rows, held, messageBuffers, msg, tx, lastMessageNumber,
                 nextMsg, err, envVars, histVars>>

\* lock.Lock() on one mutex shared by all channels.
NoMutexHeld(h) == held = {}
\* lock.Lock() that does not wait for the holder.
MutexNeverBlocks(h) == TRUE
MutexFree(h) == h \notin held

\* lock.Lock(): blocks while the mutex is held.
LockKey(p) ==
  /\ pc[p] = "lockKey"
  /\ MutexFree(lock[p])
  /\ held' = held \cup {lock[p]}
  /\ pc' = [pc EXCEPT ![p] = "begin"]
  /\ pre' = [pre EXCEPT ![p] = [row |-> rows[msg[p].channel],
                                buf |-> messageBuffers[msg[p].channel]]]
  /\ heldAtLock' = [heldAtLock EXCEPT ![p] = held]
  /\ UNCHANGED <<rows, locks, lockGen, global, messageBuffers, msg, lock, tx,
                 lastMessageNumber, nextMsg, err, envVars, applied, txLog,
                 invoked, failedAt, overlap, outcome>>

\* The outcomes of one database operation: it fails only in a behaviour
\* whose database returns errors.
StorageFails == IF faulty THEN BOOLEAN ELSE {FALSE}

\* tx, err := i.db.Begin(): the transaction starts from the committed row;
\* on an error the function returns it.
Begin(p) ==
  /\ pc[p] = "begin"
  /\ \E fails \in StorageFails :
       IF fails
         THEN /\ err' = [err EXCEPT ![p] = TRUE]
              /\ pc' = [pc EXCEPT ![p] = "return"]
              /\ UNCHANGED tx
         ELSE /\ tx' = [tx EXCEPT ![p] = rows[msg[p].channel]]
              /\ pc' = [pc EXCEPT ![p] = "read"]
              /\ UNCHANGED err
  /\ UNCHANGED <<progVars, msg, lock, lastMessageNumber, nextMsg, envVars,
                 histVars>>

\* A duplicate test that lets the message equal to the watermark through.
IsStaleStrict(m, last) == m.num < last
IsStale(m, last) == m.num <= last
\* A gap test that also sends the next expected message to the buffer.
IsGapFromNext(m, last) == m.num > last
IsGap(m, last) == m.num > last + 1

\* The watermark read (an error other than sql.ErrNoRows is returned) and the
\* three-way decision on the message number.
ReadWatermark(p) ==
  /\ pc[p] = "read"
  /\ \E fails \in StorageFails :
       IF fails
         THEN /\ err' = [err EXCEPT ![p] = TRUE]
              /\ pc' = [pc EXCEPT ![p] = "return"]
              /\ UNCHANGED lastMessageNumber
         ELSE LET last == ReadLastMessageNumber(tx[p])
              IN /\ lastMessageNumber' = [lastMessageNumber EXCEPT ![p] = last]
                 /\ pc' = [pc EXCEPT ![p] =
                             IF IsStale(msg[p], last) THEN "commit"
                             ELSE IF IsGap(msg[p], last) THEN "buffer"
                             ELSE "apply"]
                 /\ UNCHANGED err
  /\ UNCHANGED <<progVars, msg, lock, tx, nextMsg, envVars, histVars>>

\* The out-of-order branch: i.global.Lock()
BufferEnter(p) ==
  /\ pc[p] = "buffer"
  /\ GlobalFree(p)
  /\ global' = p
  /\ pc' = [pc EXCEPT ![p] = "insert"]
  /\ UNCHANGED <<rows, locks, lockGen, held, messageBuffers, msg, lock, tx,
                 lastMessageNumber, nextMsg, err, envVars, histVars>>

\* The out-of-order branch: scan, append, sort, i.global.Unlock()
BufferStore(p) ==
  /\ pc[p] = "insert"
  /\ messageBuffers' = [messageBuffers EXCEPT ![msg[p].channel] =
                          BufferInsert(@, msg[p])]
  /\ global' = IF global = p THEN 0 ELSE global
  /\ pc' = [pc EXCEPT ![p] = "commit"]
  /\ UNCHANGED <<rows, locks, lockGen, held, msg, lock, tx, lastMessageNumber,
                 nextMsg, err, envVars, histVars>>

\* What one processMessage call followed by the watermark UPDATE leaves in
\* the goroutine: used for the submitted message and for each drained one.
\* An error of processMessage or of either statement's Exec is returned.
ApplyStep(p, m) ==
  LET r == processMessage(tx[p], m)
  IN /\ invoked' = [invoked EXCEPT ![p] = @ + 1]
     /\ \E fails \in StorageFails :
        IF r.err \/ fails
          THEN /\ err' = [err EXCEPT ![p] = TRUE]
               /\ failedAt' = [failedAt EXCEPT ![p] = m]
               /\ pc' = [pc EXCEPT ![p] = "return"]
               /\ UNCHANGED <<tx, lastMessageNumber, txLog>>
          ELSE /\ tx' = [tx EXCEPT ![p] = SetLastMessageNumber(r.row, m.num)]
               /\ lastMessageNumber' = [lastMessageNumber EXCEPT ![p] = m.num]
               /\ txLog' = [txLog EXCEPT ![p] =
                              IF r.row.present THEN Append(@, m) ELSE @]
               /\ pc' = [pc EXCEPT ![p] = "drain"]
               /\ UNCHANGED <<err, failedAt>>

\* The in-order branch: processMessage, UPDATE last_message_number, cursor.
Apply(p) ==
  /\ pc[p] = "apply"
  /\ ApplyStep(p, msg[p])
  /\ UNCHANGED <<progVars, msg, lock, nextMsg, envVars, applied, pre,
                 heldAtLock, overlap, outcome>>

\* The drain loop: i.global.Lock()
DrainEnter(p) ==
  /\ pc[p] = "drain"
  /\ GlobalFree(p)
  /\ global' = p
  /\ pc' = [pc EXCEPT ![p] = "take"]
  /\ UNCHANGED <<rows, locks, lockGen, held, messageBuffers, msg, lock, tx,
                 lastMessageNumber, nextMsg, err, envVars, histVars>>

\* The drain loop: getNextMessage, removeMessage, i.global.Unlock()
DrainTake(p) ==
  /\ pc[p] = "take"
  /\ LET c == msg[p].channel
         n == getNextMessage(messageBuffers[c], lastMessageNumber[p] + 1)
     IN IF n = NoMsg
          THEN /\ pc' = [pc EXCEPT ![p] = "commit"]
               /\ UNCHANGED <<messageBuffers, nextMsg>>
          ELSE /\ messageBuffers' = [messageBuffers EXCEPT ![c] =
                                       removeMessage(@, n.num)]
               /\ nextMsg' = [nextMsg EXCEPT ![p] = n]
               /\ pc' = [pc EXCEPT ![p] = "drained"]
  /\ global' = IF global = p THEN 0 ELSE global
  /\ UNCHANGED <<rows, locks, lockGen, held, msg, lock, tx, lastMessageNumber,
                 err, envVars, histVars>>

\* The drain loop: the skip test, processMessage, cursor, UPDATE.
DrainApply(p) ==
  /\ pc[p] = "drained"
  /\ IF nextMsg[p].num <= lastMessageNumber[p]
       THEN /\ pc' = [pc EXCEPT ![p] = "drain"]
            /\ UNCHANGED <<tx, lastMessageNumber, err, txLog, invoked, failedAt>>
       ELSE ApplyStep(p, nextMsg[p])
  /\ UNCHANGED <<progVars, msg, lock, nextMsg, envVars, applied, pre,
                 heldAtLock, overlap, outcome>>

\* return tx.Commit(): the transaction's row becomes the committed row; when
\* the commit fails nothing is written and its error is returned.
Commit(p) ==
  /\ pc[p] = "commit"
  /\ \E fails \in StorageFails :
       IF fails
         THEN /\ err' = [err EXCEPT ![p] = TRUE]
              /\ UNCHANGED <<rows, applied>>
         ELSE /\ rows' = [rows EXCEPT ![msg[p].channel] = tx[p]]
              /\ applied' = [applied EXCEPT ![msg[p].channel] = @ \o txLog[p]]
              /\ UNCHANGED err
  /\ txLog' = [txLog EXCEPT ![p] = <<>>]
  /\ pc' = [pc EXCEPT ![p] = "return"]
  /\ UNCHANGED <<locks, lockGen, held, global, messageBuffers, msg, lock, tx,
                 lastMessageNumber, nextMsg, envVars, invoked, failedAt,
                 pre, heldAtLock, overlap, outcome>>

\* A rollback that keeps what the transaction wrote.
RollbackKeepsWrites(committed, written) == written

\* The committed row after the deferred tx.Rollback(): what the transaction
\* wrote and did not commit is gone; after a commit the two are the same.
Rollback(committed, written) == committed

\* An Unlock that is not deferred: a call that returns an error skips it.
UnlockedOnSuccess(p) == IF err[p] THEN {} ELSE {lock[p]}
\* A return that unlocks every locked mutex.
UnlocksAll(p) == held

\* The mutexes a returning call unlocks (defer lock.Unlock()).
Unlocked(p) == {lock[p]}

\* The function returns: deferred tx.Rollback() (nothing to undo after a
\* commit) and deferred lock.Unlock().
Return(p) ==
  /\ pc[p] = "return"
  /\ rows' = [rows EXCEPT ![msg[p].channel] = Rollback(@, tx[p])]
  /\ held' = held \ Unlocked(p)
  /\ outcome' = outcome \cup
       {[msg |-> msg[p], pre |-> pre[p],
         post |-> [row |-> rows'[msg[p].channel],
                   buf |-> messageBuffers[msg[p].channel]],
         err |-> err[p], invoked |-> invoked[p], failedAt |-> failedAt[p],
         overlap |-> overlap[p], unlocked |-> lock[p] \notin held',
         heldAtLock |-> heldAtLock[p]]}
  /\ pc' = [pc EXCEPT ![p] = "idle"]
  /\ msg' = [msg EXCEPT ![p] = NoMsg]
  /\ lock' = [lock EXCEPT ![p] = NoLock]
  /\ tx' = [tx EXCEPT ![p] = NoRow]
  /\ lastMessageNumber' = [lastMessageNumber EXCEPT ![p] = 0]
  /\ nextMsg' = [nextMsg EXCEPT ![p] = NoMsg]
  /\ err' = [err EXCEPT ![p] = FALSE]
  /\ txLog' = [txLog EXCEPT ![p] = <<>>]
  /\ invoked' = [invoked EXCEPT ![p] = 0]
  /\ failedAt' = [failedAt EXCEPT ![p] = NoMsg]
  /\ pre' = [pre EXCEPT ![p] = NoSnap]
  /\ heldAtLock' = [heldAtLock EXCEPT ![p] = {}]
  /\ overlap' = [overlap EXCEPT ![p] = FALSE]
  /\ UNCHANGED <<locks, lockGen, global, messageBuffers, envVars, applied>>

Next ==
  \E p \in Procs :
    \/ Call(p)
    \/ GetLockEnter(p)
    \/ GetLockLookup(p)
    \/ GetLockCreate(p)
    \/ LockKey(p)
    \/ Begin(p)
    \/ ReadWatermark(p)
    \/ BufferEnter(p)
    \/ BufferStore(p)
    \/ Apply(p)
    \/ DrainEnter(p)
    \/ DrainTake(p)
    \/ DrainApply(p)
    \/ Commit(p)
    \/ Return(p)

\* ------------------------------------------------------------------ inputs
\* One channel, every message number, and per number a launch, a speed
\* increase, an unknown type and an undecodable payload.
LaunchSpeed == 500
Delta == 100
Messages ==
  UNION {{Launched("A", n, LaunchSpeed), SpeedIncreased("A", n, Delta),
          Bogus("A", n), Malformed("A", n)} : n \in 1..MaxSeq}

Init ==
  /\ faulty = FALSE
  /\ \E seeded \in BOOLEAN :
       InitWith([c \in Channels |-> IF seeded THEN SeedRow ELSE NoRow],
                Messages, MaxCalls)

Spec == Init /\ [][Next]_vars

\* Deliveries of launches and unknown types to a database whose operations
\* may return errors.
MessagesStorage ==
  UNION {{Launched("A", n, LaunchSpeed), Bogus("A", n)} : n \in 1..MaxSeq}

InitStorage ==
  /\ faulty = TRUE
  /\ \E seeded \in BOOLEAN :
       InitWith([c \in Channels |-> IF seeded THEN SeedRow ELSE NoRow],
                MessagesStorage, MaxCalls)

SpecStorage == InitStorage /\ [][Next]_vars

\* Deliveries to two channels: per channel and number a launch and an
\* unknown type.
MessagesKeys ==
  UNION {{Launched(c, n, LaunchSpeed), Bogus(c, n)} :
           c \in Channels, n \in 1..MaxSeq}

InitKeys ==
  /\ faulty = FALSE
  /\ InitWith([c \in Channels |-> NoRow], MessagesKeys, MaxCalls)

SpecKeys == InitKeys /\ [][Next]_vars

\* A goroutine that has started a call and can take its next step does take
\* it: no statement of UpdateRocketState waits for anything but a mutex, the
\* database operations return, and a mutex that stays free is acquired.
Step(p) ==
  \/ GetLockEnter(p) \/ GetLockLookup(p) \/ GetLockCreate(p) \/ LockKey(p)
  \/ Begin(p) \/ ReadWatermark(p) \/ BufferEnter(p) \/ BufferStore(p)
  \/ Apply(p) \/ DrainEnter(p) \/ DrainTake(p) \/ DrainApply(p)
  \/ Commit(p) \/ Return(p)
Fairness == \A p \in Procs : WF_vars(Step(p))

\* Deliveries to two channels, a launch per number and an unknown type as
\* first event, with calls that keep running.
MessagesFair ==
  {Launched(c, n, LaunchSpeed) : c \in Channels, n \in 1..MaxSeq}
    \cup {Bogus(c, 1) : c \in Channels}

InitFair ==
  /\ faulty = FALSE
  /\ InitWith([c \in Channels |-> NoRow], MessagesFair, MaxCalls)

SpecFair == InitFair /\ [][Next]_vars /\ Fairness

\* Deliveries of the five message types to one channel, with payload values
\* of both signs and a decrease larger than the speeds the rows reach.
BigDelta == 600
MessagesKinds ==
  UNION {{Launched("A", n, LaunchSpeed), Launched("A", n, -LaunchSpeed),
          SpeedIncreased("A", n, Delta), SpeedIncreased("A", n, -BigDelta),
          SpeedDecreased("A", n, Delta), SpeedDecreased("A", n, BigDelta),
          SpeedDecreased("A", n, -Delta),
          Exploded("A", n), MissionChanged("A", n, "GEMINI")} : n \in 1..MaxSeq}

InitKinds ==
  /\ faulty = FALSE
  /\ \E seeded \in BOOLEAN :
       InitWith([c \in Channels |-> IF seeded THEN SeedRow ELSE NoRow],
                MessagesKinds, MaxKindCalls)

SpecKinds == InitKinds /\ [][Next]_vars


\* ------------------------------------------- the call as one sequential step
\* The drain loop run to its end on a row and a buffer: the row and buffer it
\* leaves, and whether a transition failed (the buffer keeps its removals).
RECURSIVE DrainAll(_, _, _)
DrainAll(row, buf, last) ==
  LET n == getNextMessage(buf, last + 1)
  IN IF n = NoMsg THEN [err |-> FALSE, row |-> row, buf |-> buf]
     ELSE LET rest == removeMessage(buf, n.num)
              r == processMessage(row, n)
          IN IF n.num <= last THEN DrainAll(row, rest, last)
             ELSE IF r.err THEN [err |-> TRUE, row |-> row, buf |-> rest]
             ELSE DrainAll(SetLastMessageNumber(r.row, n.num), rest, n.num)

\* UpdateRocketState run alone on a committed row and a buffer: the error it
\* returns and the committed row and buffer it leaves.
UpdateRocketState(st, m) ==
  LET last == ReadLastMessageNumber(st.row)
      r == processMessage(st.row, m)
      d == DrainAll(SetLastMessageNumber(r.row, m.num), st.buf, m.num)
  IN IF IsStale(m, last) THEN [err |-> FALSE, row |-> st.row, buf |-> st.buf]
     ELSE IF IsGap(m, last)
       THEN [err |-> FALSE, row |-> st.row, buf |-> BufferInsert(st.buf, m)]
     ELSE IF r.err THEN [err |-> TRUE, row |-> st.row, buf |-> st.buf]
     ELSE IF d.err THEN [err |-> TRUE, row |-> st.row, buf |-> d.buf]
     ELSE [err |-> FALSE, row |-> d.row, buf |-> d.buf]

\* Calls made one after the other, each on what the one before left.
RECURSIVE SubmitAll(_, _)
SubmitAll(st, ms) ==
  IF ms = <<>> THEN st
  ELSE LET r == UpdateRocketState(st, Head(ms))
       IN SubmitAll([row |-> r.row, buf |-> r.buf], Tail(ms))

\* Every returned call did what the sequential reading of the function does
\* on the row and buffer it found under the channel mutex.
SerialEquivalence ==
  \A o \in outcome :
    LET r == UpdateRocketState(o.pre, o.msg)
    IN o.err = r.err /\ o.post.row = r.row /\ o.post.buf = r.buf

\* ---------------------------------------------------------------- vocabulary
Critical ==
  {"begin", "read", "buffer", "insert", "apply", "drain", "take", "drained",
   "commit", "return"}
Quiescent == \A p \in Procs : pc[p] = "idle"
Numbers(s) == [i \in 1..Len(s) |-> s[i].num]
StrictlyIncreasing(ns) == \A i \in 1..(Len(ns) - 1) : ns[i] < ns[i + 1]
Watermark(row) == IF row.present THEN row.last_message_number ELSE 0
InOrder(o) == o.msg.num = Watermark(o.pre.row) + 1
Ahead(o) == o.msg.num > Watermark(o.pre.row) + 1
Stale(o) == o.msg.num <= Watermark(o.pre.row)
HasNumber(buf, n) == \E i \in 1..Len(buf) : buf[i].num = n
Invalid(m) == m.type \notin MessageHandlers \/ ~m.wellFormed
Returned == {o.msg : o \in outcome}
CallsMade == MaxCalls - left
\* The returned calls delivered one valid event per number 1..n of channel c.
IsRun(c, n) ==
  /\ \A m \in Returned : m.channel = c /\ ~Invalid(m) /\ m.num \in 1..n
  /\ \A k \in 1..n : Cardinality({m \in Returned : m.num = k}) = 1
RunInOrder(n) ==
  [k \in 1..n |-> CHOOSE m \in Returned : m.num = k]


\* ==================================================================== claims

\* C1: for a fixed channel the transitions that take effect (change the
\* channel's row) are applied in strictly increasing messageNumber order, in
\* the committed history and in every open transaction on top of it.
C1_AppliedInIncreasingOrder ==
  /\ \A c \in Channels : StrictlyIncreasing(Numbers(applied[c]))
  /\ \A p \in Procs :
       pc[p] \in Critical =>
         StrictlyIncreasing(Numbers(applied[msg[p].channel] \o txLog[p]))

\* Two calls overlapped, one event arrived ahead of its predecessor and was
\* buffered, and three transitions have been committed for the channel.
C1_Witness ==
  /\ Len(applied["A"]) = 3
  /\ \E o \in outcome : o.overlap /\ Ahead(o)

\* C2: at most one call per channel is between locking and unlocking that
\* channel's mutex.
C2_MutualExclusion ==
  \A c \in Channels :
    Cardinality({p \in Procs : pc[p] \in Critical /\ msg[p].channel = c}) <= 1

\* One call is applying its transition while another call for the same
\* channel waits for the mutex.
C2_Witness ==
  \E p, q \in Procs :
    /\ pc[p] = "drained" /\ pc[q] = "lockKey"
    /\ msg[p].channel = msg[q].channel
    /\ lock[p] = lock[q]


\* C3: once one valid event per messageNumber 1..n has been submitted for a
\* channel (in any order, with duplicates, concurrently) and every call has
\* returned, each of the n transitions has taken effect exactly once: the
\* committed transitions are those of 1, 2, ..., n and the watermark is n.
C3_ExactlyOnce ==
  \A n \in 1..MaxSeq :
    (Quiescent /\ IsRun("A", n)) =>
      /\ Numbers(applied["A"]) = [k \in 1..n |-> k]
      /\ Watermark(rows["A"]) = n

\* C4: the events 1..n of a channel submitted one call after the other, each
\* once, in any order, leave the row that submitting them as 1, 2, ..., n
\* leaves.
C4_OrderIndependence ==
  \A n \in 1..MaxSeq :
    (/\ Quiescent
     /\ IsRun("A", n)
     /\ CallsMade = n
     /\ \A o \in outcome : ~o.overlap) =>
      rows["A"] = SubmitAll([row |-> rows0["A"], buf |-> <<>>], RunInOrder(n)).row

\* C5: a call that submits again the event of a call that has just returned
\* (it finds the row and buffer that call left) leaves row, watermark and
\* buffer as they are, and returns success when the first call did.
C5_Idempotence ==
  \A o1, o2 \in outcome :
    (o1.msg = o2.msg /\ o2.pre = o1.post) =>
      /\ o2.post = o1.post
      /\ (~o1.err => ~o2.err)

\* C6: when the speed increases 1..n (each by Delta) have been submitted for
\* a channel whose row exists with speed SeedSpeed and watermark 0, and all
\* calls have returned, every call returned success, the speed is
\* SeedSpeed + n * Delta and the watermark is n, under every interleaving.
C6_ConcurrentDelivery ==
  \A n \in 1..MaxSeq :
    (/\ Quiescent
     /\ rows0["A"] = SeedRow
     /\ Returned = {SpeedIncreased("A", k, Delta) : k \in 1..n}) =>
      /\ \A o \in outcome : ~o.err
      /\ rows["A"].speed = SeedSpeed + n * Delta
      /\ rows["A"].last_message_number = n

\* As many speed increases as there are goroutines, one per goroutine, all
\* calls overlapping, the later number buffered first, all returned.
C6_Witness ==
  /\ Quiescent
  /\ rows0["A"] = SeedRow
  /\ Returned = {SpeedIncreased("A", k, Delta) : k \in 1..NumProcs}
  /\ CallsMade = NumProcs
  /\ \A o \in outcome : o.overlap
  /\ \E o \in outcome : Ahead(o)
  /\ rows["A"].speed = SeedSpeed + NumProcs * Delta

\* C7: a call whose event is the next expected one and has no handler or an
\* undecodable payload returns the error, leaves the committed row as it was
\* (none stays none), does not buffer the event and unlocks the mutex.
C7_InOrderFailure ==
  \A o \in outcome :
    (InOrder(o) /\ Invalid(o.msg)) =>
      /\ o.err
      /\ o.post.row = o.pre.row
      /\ ~HasNumber(o.post.buf, o.msg.num)
      /\ o.post.buf = o.pre.buf
      /\ o.unlocked

\* Both kinds of failure have happened, one of them on a channel with no row.
C7_Witness ==
  /\ \E o \in outcome :
       InOrder(o) /\ o.msg.type \notin MessageHandlers /\ ~o.pre.row.present
         /\ o.err /\ ~rows["A"].present
  /\ \E o \in outcome : InOrder(o) /\ ~o.msg.wellFormed /\ o.err

\* C8 as stated: every call whose event is invalid returns an error, whatever
\* its messageNumber, and leaves the watermark where it was.
C8_AlwaysReturned ==
  \A o \in outcome :
    Invalid(o.msg) =>
      o.err /\ Watermark(o.post.row) = Watermark(o.pre.row)

\* C8 as the code has it: a call whose event is invalid returns an error
\* exactly when the event is the next expected one; it never moves the
\* watermark, and no invalid event is among the committed transitions.
C8_ReturnedWhenInOrder ==
  /\ \A o \in outcome :
       Invalid(o.msg) =>
         /\ o.err <=> InOrder(o)
         /\ Watermark(o.post.row) = Watermark(o.pre.row)
  /\ \A c \in Channels : \A i \in 1..Len(applied[c]) : ~Invalid(applied[c][i])

\* An invalid event that was next returned its error; another that was ahead
\* of the watermark was buffered and returned success.
C8_Witness ==
  /\ \E o \in outcome : Invalid(o.msg) /\ InOrder(o) /\ o.err
  /\ \E o \in outcome :
       Invalid(o.msg) /\ Ahead(o) /\ ~o.err /\ HasNumber(o.post.buf, o.msg.num)

\* A call failed in its drain loop: the transition that failed is the one of
\* a buffered event, after the submitted event was applied.
MidDrainFailure(o) == o.err /\ o.failedAt.num > o.msg.num

C10_StaleDiscard ==
  \A o \in outcome :
    Stale(o) => ~o.err /\ o.post = o.pre /\ o.invoked = 0

\* A stale event with an unknown type and one with an undecodable payload
\* returned success.
C10_Witness ==
  /\ \E o \in outcome :
       Stale(o) /\ o.msg.type \notin MessageHandlers /\ ~o.err
         /\ o.pre.row.present
  /\ \E o \in outcome : Stale(o) /\ ~o.msg.wellFormed /\ ~o.err

\* The entries of a buffer that carry messageNumber n.
WithNumber(buf, n) == SelectSeq(buf, LAMBDA x : x.num = n)

\* C11: a call whose messageNumber is above watermark + 1 returns success and
\* leaves the row (and so the watermark) as it was; afterwards the channel's
\* buffer holds exactly one entry with that number: the entry that was there
\* before the call when there was one (the buffer is then untouched), else the
\* submitted message, added to the entries that were there.
C11_GapBuffering ==
  \A o \in outcome :
    Ahead(o) =>
      /\ ~o.err
      /\ o.post.row = o.pre.row
      /\ Len(WithNumber(o.post.buf, o.msg.num)) = 1
      /\ IF HasNumber(o.pre.buf, o.msg.num)
           THEN o.post.buf = o.pre.buf
           ELSE /\ WithNumber(o.post.buf, o.msg.num) = <<o.msg>>
                /\ removeMessage(o.post.buf, o.msg.num) = o.pre.buf

\* One event was buffered into an empty slot; another event with the same
\* number and another payload came later and the first entry stayed.
C11_Witness ==
  /\ \E o \in outcome :
       Ahead(o) /\ ~HasNumber(o.pre.buf, o.msg.num)
         /\ WithNumber(o.post.buf, o.msg.num) = <<o.msg>>
  /\ \E o \in outcome :
       Ahead(o) /\ HasNumber(o.pre.buf, o.msg.num)
         /\ WithNumber(o.post.buf, o.msg.num) # <<o.msg>>
         /\ o.post.buf = o.pre.buf

\* The last number of the unbroken run n, n + 1, ... whose numbers above n
\* are all in the buffer.
RECURSIVE RunEnd(_, _)
RunEnd(buf, n) == IF HasNumber(buf, n + 1) THEN RunEnd(buf, n + 1) ELSE n

\* C12: a call whose event is the next expected one (watermark + 1), made
\* while the buffer holds the events watermark + 2 .. watermark + k, and whose
\* transitions all succeed, returns with the committed watermark at
\* watermark + k and with none of those entries in the buffer; after it the
\* buffer has no entry numbered committed watermark + 1.
C12_DrainCompleteness ==
  \A o \in outcome :
    (InOrder(o) /\ ~o.err) =>
      /\ Watermark(o.post.row) = RunEnd(o.pre.buf, o.msg.num)
      /\ \A n \in (o.msg.num + 1)..RunEnd(o.pre.buf, o.msg.num) :
           ~HasNumber(o.post.buf, n)
      /\ ~HasNumber(o.post.buf, Watermark(o.post.row) + 1)

\* The effect of an event on an aggregate as the data model gives it: the
\* fields of the event's type and the watermark; an aggregate that does not
\* exist has no fields to change and only a launch creates it.
Max(a, b) == IF a >= b THEN a ELSE b
Transition(row, m) ==
  IF m.type = "RocketLaunched"
    THEN [present |-> TRUE, type |-> m.rtype, speed |-> m.launchSpeed,
          mission |-> m.mission, status |-> "launched",
          last_message_number |-> m.num]
  ELSE IF ~row.present THEN row
  ELSE [present |-> TRUE,
        type |-> row.type,
        speed |-> IF m.type = "RocketSpeedIncreased" THEN row.speed + m.by
                  ELSE IF m.type = "RocketSpeedDecreased"
                    THEN Max(0, row.speed - m.by)
                  ELSE row.speed,
        mission |-> IF m.type = "RocketMissionChanged" THEN m.newMission
                    ELSE row.mission,
        status |-> IF m.type = "RocketExploded" THEN "exploded"
                   ELSE row.status,
        last_message_number |-> m.num]

\* The transitions of a sequence of events applied in order.
RECURSIVE Fold(_, _)
Fold(row, ms) == IF ms = <<>> THEN row ELSE Fold(Transition(row, Head(ms)), Tail(ms))

\* The events submitted for a channel so far, by returned and by running calls.
Submitted(c) ==
  {m \in Returned \cup {msg[p] : p \in Procs} : m.channel = c}
\* One event only has been submitted for each of the numbers 1..n.
OnePerNumber(c, n) ==
  \A k \in 1..n : Cardinality({m \in Submitted(c) : m.num = k}) = 1
EventsUpTo(c, n) == [k \in 1..n |-> CHOOSE m \in Submitted(c) : m.num = k]

\* C13: in every state the committed row of a channel is the result of the
\* committed transitions, in their order, on the row the channel started
\* with, and its watermark is the number of the last of them; when one event
\* only was submitted per number up to the watermark, the row is the result
\* of the transitions of the events 1..watermark in order.
C13_RowMatchesWatermark ==
  \A c \in Channels :
    LET w == Watermark(rows[c])
    IN /\ rows[c] = Fold(rows0[c], applied[c])
       /\ w = IF applied[c] = <<>> THEN 0
              ELSE applied[c][Len(applied[c])].num
       /\ OnePerNumber(c, w) => rows[c] = Fold(rows0[c], EventsUpTo(c, w))

\* Events 1 and 2 were committed by one call, 2 out of the buffer, and a call
\* with an invalid event 3 returned its error.
C13_Witness ==
  /\ Watermark(rows["A"]) = 2
  /\ OnePerNumber("A", 2)
  /\ \E o \in outcome : Ahead(o) /\ o.msg.num = 2
  /\ \E o \in outcome : InOrder(o) /\ o.invoked = 2 /\ ~o.err
  /\ \E o \in outcome : o.err /\ o.msg.num = 3

\* C14: the committed watermark of every channel is 0 at the start, a call
\* that finds no row reads 0, and no step of any call, returning nil or an
\* error (of a transition or of the database), lowers a committed watermark.
C14_WatermarkMonotone ==
  /\ \A c \in Channels : Watermark(rows[c]) = 0
  /\ [](\A p \in Procs :
          (pc[p] \in {"buffer", "insert", "apply"} /\ ~tx[p].present) =>
            lastMessageNumber[p] = 0)
  /\ [][\A c \in Channels : Watermark(rows'[c]) >= Watermark(rows[c])]_vars

\* The watermark was raised to 2, and a call that found it at 1 or more died
\* of a database error after its transition was written.
C14_Witness ==
  /\ Watermark(rows["A"]) = 2
  /\ \E o \in outcome :
       /\ o.err /\ ~Invalid(o.msg) /\ o.invoked >= 1
       /\ Watermark(o.pre.row) >= 1
       /\ Watermark(o.post.row) = Watermark(o.pre.row)
  /\ \E o \in outcome : o.err /\ o.invoked = 0 /\ ~o.pre.row.present

\* The channel of the call goroutine p is running or, when p is idle, of the
\* call it starts in this step.
CallChannel(p) == IF pc[p] = "idle" THEN msg'[p].channel ELSE msg[p].channel
HeldOf(h, c) == {x \in h : x[1] = c}

\* C15: a step of a call for one channel, in a call that succeeds or fails
\* and whatever the other goroutines are doing, leaves the committed row (and
\* watermark), the buffer, the registry entry and the mutex state of every
\* other channel as they are; the entry a call takes from the buffer, the
\* transitions it writes and commits and the entries of a channel's buffer
\* are events of that channel.
C15_NonInterference ==
  /\ [][\A p \in Procs :
          pc'[p] # pc[p] =>
            \A b \in Channels \ {CallChannel(p)} :
              /\ rows'[b] = rows[b]
              /\ messageBuffers'[b] = messageBuffers[b]
              /\ locks'[b] = locks[b]
              /\ lockGen'[b] = lockGen[b]
              /\ HeldOf(held', b) = HeldOf(held, b)
              /\ applied'[b] = applied[b]]_vars
  /\ [](\A p \in Procs :
          /\ nextMsg[p] # NoMsg => nextMsg[p].channel = msg[p].channel
          /\ \A i \in 1..Len(txLog[p]) : txLog[p][i].channel = msg[p].channel)
  /\ [](\A c \in Channels :
          /\ \A i \in 1..Len(applied[c]) : applied[c][i].channel = c
          /\ \A i \in 1..Len(messageBuffers[c]) : messageBuffers[c][i].channel = c)

\* A call for channel A is returning an error while a call for channel B,
\* holding B's mutex, has taken B's buffered event 2 out of B's buffer.
C15_Witness ==
  \E p, q \in Procs :
    /\ msg[p].channel = "A" /\ pc[p] = "return" /\ err[p]
    /\ msg[q].channel = "B" /\ pc[q] = "drained" /\ nextMsg[q].num = 2
    /\ lock[q] \in held
    /\ rows["B"] = NoRow

\* Goroutine p has a step it can take now.
Runnable(p) ==
  ENABLED (\/ Call(p) \/ GetLockEnter(p) \/ GetLockLookup(p) \/ GetLockCreate(p)
           \/ LockKey(p) \/ Begin(p) \/ ReadWatermark(p) \/ BufferEnter(p)
           \/ BufferStore(p) \/ Apply(p) \/ DrainEnter(p) \/ DrainTake(p)
           \/ DrainApply(p) \/ Commit(p) \/ Return(p))
\* p waits to enter a section of the registry-wide mutex that another
\* goroutine is in.
WaitsForGlobal(p) ==
  pc[p] \in {"getLock", "buffer", "drain"} /\ global \notin {0, p}
\* p waits for its channel's mutex while another call for the same channel
\* holds it.
WaitsForSameChannel(p) ==
  /\ pc[p] = "lockKey"
  /\ \E q \in Procs \ {p} :
       pc[q] \in Critical /\ msg[q].channel = msg[p].channel

\* C16: a call in progress can always take its next step unless it waits for
\* the registry-wide mutex, held by a goroutine that is inside one of its
\* short sections and can itself step, or for the mutex of its own channel,
\* held by another call for that channel; so a call for one channel locks its
\* mutex and runs to its return while a call for another channel holds that
\* channel's mutex.
C16_Parallelism ==
  /\ \A p \in Procs :
       pc[p] # "idle" =>
         Runnable(p) \/ WaitsForGlobal(p) \/ WaitsForSameChannel(p)
  /\ \A p \in Procs :
       global = p => pc[p] \in {"lookup", "create", "insert", "take"} /\ Runnable(p)

\* Two calls only were made; the one for channel A holds A's mutex and has
\* not returned; the one for channel B locked B's mutex while A's was held,
\* applied an event and returned.
C16_Witness ==
  /\ CallsMade = 2
  /\ \E p \in Procs :
       /\ pc[p] \in Critical \ {"return"}
       /\ msg[p].channel = "A"
       /\ lock[p] \in held
       /\ \E o \in outcome :
            /\ o.msg.channel = "B"
            /\ lock[p] \in o.heldAtLock
            /\ ~o.err /\ o.invoked = 1 /\ o.post.row.present

\* C17: every call that returned, with nil or with an error of a transition
\* or of the database (db.Begin, the watermark read, an Exec, tx.Commit),
\* unlocked the mutex it had locked; whenever no call for a channel is
\* between lock.Lock() and its return, no mutex of that channel is locked.
C17_LockReleased ==
  /\ \A o \in outcome : o.unlocked
  /\ \A c \in Channels :
       (\A p \in Procs : pc[p] \in Critical => msg[p].channel # c) =>
         HeldOf(held, c) = {}

\* All calls have returned: one failed before any transition (db.Begin or the
\* watermark read), one failed at a transition of an invalid event, one
\* applied its event and failed at tx.Commit; no mutex is locked.
C17_Witness ==
  /\ Quiescent
  /\ held = {}
  /\ \E o \in outcome : o.err /\ o.invoked = 0 /\ o.post.buf = o.pre.buf
  /\ \E o \in outcome : o.err /\ Invalid(o.failedAt) /\ o.failedAt # NoMsg
  /\ \E o \in outcome : o.err /\ o.invoked = 1 /\ o.failedAt = NoMsg

\* A returned call that applied its event and nothing else, on a row that
\* existed.
OneTransition(o) ==
  InOrder(o) /\ ~o.err /\ o.invoked = 1 /\ o.pre.row.present
IsDecrease(m) == m.type = "RocketSpeedDecreased" /\ m.wellFormed

\* C18: a call that applies one RocketSpeedDecreased event with delta d to a
\* row with speed v leaves the speed max(0, v - d); a call that applies only
\* RocketSpeedDecreased events with deltas >= 0 (its own and the buffered
\* ones it drains) to a row with speed >= 0 leaves a speed between 0 and the
\* speed it found, and so does every state of a channel that was only sent
\* such events.
C18_ClampLaw ==
  /\ \A o \in outcome :
       (OneTransition(o) /\ IsDecrease(o.msg)) =>
         o.post.row.speed = Max(0, o.pre.row.speed - o.msg.by)
  /\ \A o \in outcome :
       (/\ o.pre.row.present /\ o.pre.row.speed >= 0 /\ ~o.err
        /\ IsDecrease(o.msg) /\ o.msg.by >= 0
        /\ \A i \in 1..Len(o.pre.buf) :
             IsDecrease(o.pre.buf[i]) /\ o.pre.buf[i].by >= 0) =>
         o.post.row.speed >= 0 /\ o.post.row.speed <= o.pre.row.speed
  /\ \A c \in Channels :
       (/\ rows0[c].present /\ rows0[c].speed >= 0
        /\ \A m \in Submitted(c) : IsDecrease(m) /\ m.by >= 0) =>
         rows[c].speed >= 0 /\ rows[c].speed <= rows0[c].speed

\* Two decreases by BigDelta of the seeded speed: the first left the
\* difference, the second would have gone below zero and left 0.
C18_Witness ==
  /\ rows0["A"] = SeedRow
  /\ \E o \in outcome :
       OneTransition(o) /\ IsDecrease(o.msg) /\ o.msg.by = BigDelta
         /\ o.post.row.speed = SeedSpeed - BigDelta
  /\ \E o \in outcome :
       OneTransition(o) /\ IsDecrease(o.msg) /\ o.msg.by = BigDelta
         /\ o.pre.row.speed = SeedSpeed - BigDelta
         /\ o.pre.row.speed - o.msg.by < 0
         /\ o.post.row.speed = 0

\* C19: in every state the speed of every row that exists is >= 0, whatever
\* events of the five types, with launch speeds and deltas of either sign,
\* have been submitted.
C19_SpeedNeverNegative ==
  \A c \in Channels : rows[c].present => rows[c].speed >= 0

\* A returned call that applied its valid event and nothing else.
OneValidTransition(o) ==
  InOrder(o) /\ ~o.err /\ o.invoked = 1 /\ ~Invalid(o.msg)

\* C20: a call that applies one event leaves a row whose watermark is the
\* event's messageNumber and whose fields are those of the row it found
\* except for the fields of the event's type: a launch sets type, speed,
\* mission and status "launched" (and creates the row when there is none), an
\* increase adds its delta to the speed, an explosion sets status "exploded",
\* a mission change sets the mission.
C20_ExactFields ==
  \A o \in outcome :
    OneValidTransition(o) =>
      LET a == o.pre.row
          b == o.post.row
          t == o.msg.type
      IN /\ b.present
         /\ b.last_message_number = o.msg.num
         /\ b.type = IF t = "RocketLaunched" THEN o.msg.rtype ELSE a.type
         /\ b.speed = IF t = "RocketLaunched" THEN o.msg.launchSpeed
                      ELSE IF t = "RocketSpeedIncreased" THEN a.speed + o.msg.by
                      ELSE IF t = "RocketSpeedDecreased" THEN Max(0, a.speed - o.msg.by)
                      ELSE a.speed
         /\ b.mission = IF t = "RocketLaunched" THEN o.msg.mission
                        ELSE IF t = "RocketMissionChanged" THEN o.msg.newMission
                        ELSE a.mission
         /\ b.status = IF t = "RocketLaunched" THEN "launched"
                       ELSE IF t = "RocketExploded" THEN "exploded"
                       ELSE a.status

\* C21: at most one mutex is ever allocated for a channel, under every
\* interleaving of first calls; every call got from getLock the mutex the
\* registry holds for its channel; a registry entry, once made, is never
\* replaced or removed.
C21_UniqueLockHandle ==
  /\ [](\A c \in Channels :
          /\ lockGen[c] <= 1
          /\ locks[c] = lockGen[c])
  /\ [](\A p \in Procs :
          lock[p] # NoLock => lock[p] = <<msg[p].channel, locks[msg[p].channel]>>)
  /\ [](\A p, q \in Procs :
          (lock[p] # NoLock /\ lock[q] # NoLock
             /\ msg[p].channel = msg[q].channel) => lock[p] = lock[q])
  /\ [][\A c \in Channels : locks[c] # 0 => locks'[c] = locks[c]]_vars

\* The first two calls for a channel were made at the same time; one has
\* locked the mutex getLock created, the other got the same mutex from the
\* registry and waits for it.
C21_Witness ==
  /\ CallsMade = 2
  /\ \E p, q \in Procs :
       /\ p # q
       /\ overlap[p] /\ overlap[q]
       /\ msg[p].channel = msg[q].channel
       /\ pc[p] = "begin" /\ pc[q] = "lockKey"
       /\ lock[p] = lock[q] /\ lock[p] \in held

\* The positions of a call inside a section of the registry-wide mutex.
GlobalSections == {"lookup", "create", "insert", "take"}
\* The positions at which the call's next step is a database operation:
\* db.Begin, the watermark read, a handler statement and the watermark UPDATE,
\* tx.Commit, and the deferred tx.Rollback at the return.
StorageSteps == {"begin", "read", "apply", "drained", "commit", "return"}

\* C22: a goroutine holds the registry-wide mutex only inside getLock, the
\* buffer insert and the drain lookup; so no call is at a database operation
\* (begin, watermark read, transition, commit, rollback) nor waiting for a
\* channel mutex while it holds the registry-wide mutex.
C22_NoStorageUnderGlobal ==
  \A p \in Procs :
    global = p =>
      /\ pc[p] \in GlobalSections
      /\ pc[p] \notin StorageSteps
      /\ pc[p] # "lockKey"

\* One call holds the registry-wide mutex inside its buffer insert, with its
\* transaction open, while the other call, for the other channel, is at a
\* database operation.
C22_Witness ==
  \E p, q \in Procs :
    /\ global = p /\ pc[p] = "insert"
    /\ pc[q] \in StorageSteps
    /\ msg[q].channel # msg[p].channel

\* No call for channel c is between its start and its return.
NoCallFor(c) == \A p \in Procs : pc[p] # "idle" => msg[p].channel # c

\* C23: whenever no call for a channel is in progress, every entry of the
\* channel's buffer has a messageNumber above the committed watermark + 1, no
\* two entries have the same messageNumber, and the entries are in ascending
\* order of messageNumber.
C23_BufferInvariant ==
  \A c \in Channels :
    NoCallFor(c) =>
      /\ \A i \in 1..Len(messageBuffers[c]) :
           messageBuffers[c][i].num > Watermark(rows[c]) + 1
      /\ StrictlyIncreasing(Numbers(messageBuffers[c]))

\* All calls have returned; the watermark is 1 and event 3 waits in the
\* buffer, after a second event 3 was turned away as already buffered.
C23_Witness ==
  /\ Quiescent
  /\ Watermark(rows["A"]) = 1
  /\ Numbers(messageBuffers["A"]) = <<3>>
  /\ \E o \in outcome : Ahead(o) /\ HasNumber(o.pre.buf, o.msg.num)

\* C24: whenever no call for a channel is in progress, every event of the
\* channel whose call returned nil is covered by the committed watermark or
\* is in the channel's buffer.
C24_NoAcceptedEventLost ==
  \A c \in Channels :
    NoCallFor(c) =>
      \A o \in outcome :
        (o.msg.channel = c /\ ~o.err) =>
          \/ o.msg.num <= Watermark(rows[c])
          \/ HasNumber(messageBuffers[c], o.msg.num)

\* C25: a call whose event has a registered type and a decodable payload,
\* is numbered committed watermark + 1 and returns nil leaves a committed
\* watermark at or above that number, also on a channel without a row and
\* for an event that is not a launch.
C25_InOrderAdvances ==
  \A o \in outcome :
    (InOrder(o) /\ ~Invalid(o.msg) /\ ~o.err) =>
      Watermark(o.post.row) >= o.msg.num

\* C26: a call that returns an error, of a transition (its own event's or a
\* drained one's) or of the database, leaves the committed row of its
\* channel, fields and watermark, exactly as the call found it.
C26_AllOrNothing ==
  \A o \in outcome : o.err => o.post.row = o.pre.row

\* A call wrote the transition of its event on a row that existed, took the
\* next event out of the buffer and returned the error of that event's
\* transition; another call wrote its transition and returned the error of
\* tx.Commit.
C26_Witness ==
  /\ \E o \in outcome :
       o.err /\ o.invoked = 2 /\ o.failedAt.num = o.msg.num + 1
         /\ o.pre.row.present /\ Len(o.post.buf) < Len(o.pre.buf)
  /\ \E o \in outcome :
       o.err /\ o.invoked = 1 /\ o.failedAt = NoMsg /\ ~Invalid(o.msg)
         /\ o.pre.row.present

\* C27: no reachable state has calls in progress none of which can take a
\* step (no deadlock between the registry-wide mutex and the channel
\* mutexes), and every call that was started returns.
C27_DeadlockFreeAndTerminates ==
  /\ []((\E p \in Procs : pc[p] # "idle") =>
          (\E p \in Procs : pc[p] # "idle" /\ Runnable(p)))
  /\ \A p \in Procs : (pc[p] # "idle") ~> (pc[p] = "idle")

\* One call holds its channel's mutex and waits in the drain loop for the
\* registry-wide mutex; the goroutine holding that one is inside getLock on
\* its way to the same channel's mutex.
C27_Witness ==
  \E p, q \in Procs :
    /\ pc[p] = "drain" /\ lock[p] \in held
    /\ pc[q] = "lookup" /\ global = q
    /\ msg[q].channel = msg[p].channel
    /\ locks[msg[q].channel] # 0

\* The positions at which the call's next step reads or writes i.locks.
RegistryAccess == {"lookup", "create"}
\* The positions at which the call's next step reads or writes
\* i.messageBuffers: scan, append and sort; getNextMessage and removeMessage.
BufferAccess == {"insert", "take"}

\* C28: a goroutine about to read or write the registry map or the buffer map
\* holds the registry-wide mutex; one about to read or write a channel's
\* buffer also holds that channel's mutex, the one the registry has for it;
\* and no step changes either map unless the goroutine taking it holds the
\* registry-wide mutex.
C28_MapsUnderGlobal ==
  /\ [](\A p \in Procs :
          pc[p] \in RegistryAccess \cup BufferAccess => global = p)
  /\ [](\A p \in Procs :
          pc[p] \in BufferAccess =>
            /\ lock[p] \in held
            /\ lock[p] = <<msg[p].channel, locks[msg[p].channel]>>
            /\ \A q \in Procs \ {p} :
                 pc[q] \in Critical => msg[q].channel # msg[p].channel)
  /\ [][(locks' # locks \/ messageBuffers' # messageBuffers) =>
          \E p \in Procs : global = p /\ pc'[p] # pc[p]]_vars

\* One goroutine is inside the drain lookup of a channel's buffer, holding
\* both mutexes, while the other waits to enter its own buffer section for
\* the other channel.
C28_Witness ==
  \E p, q \in Procs :
    /\ pc[p] = "take" /\ global = p /\ lock[p] \in held
    /\ messageBuffers[msg[p].channel] # <<>>
    /\ pc[q] = "buffer" /\ lock[q] \in held
    /\ msg[q].channel # msg[p].channel

\* C29: the entry the drain loop has taken from the buffer is numbered
\* exactly the call's cursor + 1, so the test that skips an entry numbered at
\* or below the cursor never succeeds.
C29_DrainTakesNext ==
  \A p \in Procs :
    pc[p] = "drained" =>
      /\ nextMsg[p].num = lastMessageNumber[p] + 1
      /\ ~(nextMsg[p].num <= lastMessageNumber[p])

\* A call has drained one buffered event and has taken the next one out of a
\* buffer that held two, on a channel without a row, where the cursor runs
\* ahead of the committed and the written watermark.
C29_Witness ==
  \E p \in Procs :
    /\ pc[p] = "drained"
    /\ nextMsg[p].num = 3
    /\ lastMessageNumber[p] = 2
    /\ Len(pre[p].buf) = 2
    /\ ~tx[p].present

=============================================================================
